---- MODULE Spec2Model ----
(***************************************************************************)
(* Model of the plant-detection server of src/frontends/src/App.js         *)
(* (lines 332-565): the multer upload filter, extractPlantData, and the    *)
(* four Express routes over the PlantDetection collection.                 *)
(*                                                                         *)
(* Strings are TLA+ strings; Len, SubSeq and \o act on them as on          *)
(* sequences of characters.  Image bytes are sequences of 0..255.          *)
(***************************************************************************)
EXTENDS Integers, Sequences, FiniteSets, TLC

VARIABLES
    store,      \* the PlantDetection collection, in insertion (natural) order
    oidCounter, \* the counter part of the driver's ObjectId generator
    now,        \* the server clock, Date.now()
    reqs,       \* the POST /api/detect-plant requests: position, file, document, response
    text,       \* extraction harness: the text handed to extractPlantData
    extracted   \* extraction harness: what extractPlantData returned for it

vars == <<store, oidCounter, now, reqs, text, extracted>>

(***************************************************************************)
(* Bounds of the model.                                                    *)
(***************************************************************************)
MaxRequests == 2
MaxClock == 1
MaxTokens == 4

Null == "<null>"

(***************************************************************************)
(* Characters and the regular-expression engine's character tests.         *)
(***************************************************************************)
Char(s, i) == SubSeq(s, i, i)

LowerLetters == "abcdefghijklmnopqrstuvwxyz"
UpperLetters == "ABCDEFGHIJKLMNOPQRSTUVWXYZ"

LowerSet == {Char(LowerLetters, i) : i \in 1..26}
UpperSet == {Char(UpperLetters, i) : i \in 1..26}

\* toUpperCase on one character, the canonicalisation the i flag applies.
ToUpper == [c \in LowerSet |-> Char(UpperLetters, CHOOSE i \in 1..26 : Char(LowerLetters, i) = c)]

Canonicalize(c) == IF c \in LowerSet THEN ToUpper[c] ELSE c

\* \s : white space and line terminators.
IsWhiteSpace(c) == c \in {" ", "\t", "\n", "\r", "\f"}

\* . : anything but a line terminator.
IsDot(c) == c \notin {"\n", "\r"}

\* [A-Z] and [a-z] under the i flag: a character belongs to the class when
\* its canonical form is the canonical form of a member.
ClassUpperI == {Canonicalize(x) : x \in UpperSet}
ClassLowerI == {Canonicalize(x) : x \in LowerSet}

IsClassUpperI(c) == Canonicalize(c) \in ClassUpperI

IsClassLowerI(c) == Canonicalize(c) \in ClassLowerI

\* [^\n]
IsNotNewline(c) == c # "\n"

\* A literal of the pattern matched at position i, case-insensitively.
LiteralAt(s, lit, i) ==
    /\ i >= 1
    /\ i + Len(lit) - 1 <= Len(s)
    /\ Canonicalize(Char(s, i)) = Canonicalize(Char(lit, 1))
    /\ \A k \in 2..Len(lit) : Canonicalize(Char(s, i + k - 1)) = Canonicalize(Char(lit, k))

Min(S) == CHOOSE x \in S : \A y \in S : x <= y
Max(S) == CHOOSE x \in S : \A y \in S : x >= y

\* String.prototype.trim: strips white space and line terminators at both ends.
Trim(s) ==
    LET keep == {i \in 1..Len(s) : ~IsWhiteSpace(Char(s, i))}
    IN  IF keep = {} THEN "" ELSE SubSeq(s, Min(keep), Max(keep))

StartsWith(s, prefix) == Len(s) >= Len(prefix) /\ SubSeq(s, 1, Len(prefix)) = prefix

(***************************************************************************)
(* Runs: the last position of the longest stretch of characters of one     *)
(* kind that starts at p (p - 1 when the character at p is of another).    *)
(***************************************************************************)
RECURSIVE LetterRunEnd(_, _)
LetterRunEnd(s, p) ==
    IF p <= Len(s) /\ IsClassLowerI(Char(s, p)) THEN LetterRunEnd(s, p + 1) ELSE p - 1

RECURSIVE SpaceRunEnd(_, _)
SpaceRunEnd(s, p) ==
    IF p <= Len(s) /\ IsWhiteSpace(Char(s, p)) THEN SpaceRunEnd(s, p + 1) ELSE p - 1

RECURSIVE DotRunEnd(_, _)
DotRunEnd(s, p) ==
    IF p <= Len(s) /\ IsDot(Char(s, p)) THEN DotRunEnd(s, p + 1) ELSE p - 1

RECURSIVE NotNewlineRunEnd(_, _)
NotNewlineRunEnd(s, p) ==
    IF p <= Len(s) /\ IsNotNewline(Char(s, p)) THEN NotNewlineRunEnd(s, p + 1) ELSE p - 1

\* The positions where a literal of the pattern occurs.
Occurrences(s, lit) == {i \in 1..(Len(s) - Len(lit) + 1) : LiteralAt(s, lit, i)}

(***************************************************************************)
(* /Scientific name.*?:\s*([A-Z][a-z]+ [a-z]+)/i                           *)
(* The backtracking matcher's choice: the leftmost start, then the         *)
(* shortest .*? , then the longest \s* , then the longest letter runs.     *)
(***************************************************************************)
ScientificLabel == "Scientific name"

\* The ends e of ([A-Z][a-z]+ [a-z]+) matched from position q: the first
\* word ends at some m of its letter run with a space after it.
ScientificGroupEnds(s, q) ==
    IF q > Len(s) \/ ~IsClassUpperI(Char(s, q)) THEN {}
    ELSE UNION { IF m + 1 <= Len(s) /\ Char(s, m + 1) = " "
                 THEN (m + 2)..LetterRunEnd(s, m + 2)
                 ELSE {} : m \in (q + 1)..LetterRunEnd(s, q + 1) }

\* After the colon at j: the numbers n of characters \s* may take.
ScientificSpaceCounts(s, j) ==
    {n \in 0..(SpaceRunEnd(s, j + 1) - j) : ScientificGroupEnds(s, j + n + 1) # {}}

\* With the label at i: the positions j of a colon the match can go through.
ScientificColons(s, i) ==
    {j \in (i + Len(ScientificLabel))..DotRunEnd(s, i + Len(ScientificLabel)) :
        Char(s, j) = ":" /\ ScientificSpaceCounts(s, j) # {}}

ScientificStarts(s) ==
    {i \in Occurrences(s, ScientificLabel) : ScientificColons(s, i) # {}}

\* text.match(...): Null, or the text of capture group 1.
scientificMatch(s) ==
    IF ScientificStarts(s) = {} THEN Null
    ELSE LET i == Min(ScientificStarts(s))
             j == Min(ScientificColons(s, i))
             n == Max(ScientificSpaceCounts(s, j))
             q == j + n + 1
             e == Max(ScientificGroupEnds(s, q))
         IN  SubSeq(s, q, e)

(***************************************************************************)
(* /Common name.*?:\s*([^\n]+)/i                                           *)
(***************************************************************************)
CommonLabel == "Common name"

\* The ends e of ([^\n]+) matched from position q.
CommonGroupEnds(s, q) == q..NotNewlineRunEnd(s, q)

CommonSpaceCounts(s, j) ==
    {n \in 0..(SpaceRunEnd(s, j + 1) - j) : CommonGroupEnds(s, j + n + 1) # {}}

CommonColons(s, i) ==
    {j \in (i + Len(CommonLabel))..DotRunEnd(s, i + Len(CommonLabel)) :
        Char(s, j) = ":" /\ CommonSpaceCounts(s, j) # {}}

CommonStarts(s) ==
    {i \in Occurrences(s, CommonLabel) : CommonColons(s, i) # {}}

commonMatch(s) ==
    IF CommonStarts(s) = {} THEN Null
    ELSE LET i == Min(CommonStarts(s))
             j == Min(CommonColons(s, i))
             n == Max(CommonSpaceCounts(s, j))
             q == j + n + 1
             e == Max(CommonGroupEnds(s, q))
         IN  SubSeq(s, q, e)

\* function extractPlantData(text)
extractPlantData(s) ==
    LET scientific == scientificMatch(s)
        common     == commonMatch(s)
    IN  [scientificName |-> IF scientific # Null /\ scientific # "" THEN scientific ELSE "",
         commonName     |-> IF common # Null /\ common # "" THEN Trim(common) ELSE ""]

(***************************************************************************)
(* Optional values: a missing property of a JSON object is None.           *)
(***************************************************************************)
None == <<>>
Some(v) == <<v>>
IsSome(o) == Len(o) > 0
ValueOf(o) == o[1]

(***************************************************************************)
(* Buffer.toString('base64') and Buffer.from(str, 'base64').               *)
(***************************************************************************)
Base64Alphabet == "ABCDEFGHIJKLMNOPQRSTUVWXYZabcdefghijklmnopqrstuvwxyz0123456789+/"

Base64Set == {Char(Base64Alphabet, i) : i \in 1..64}

Base64Digit(v) == Char(Base64Alphabet, v + 1)

Base64Value == [c \in Base64Set |-> (CHOOSE i \in 1..64 : Char(Base64Alphabet, i) = c) - 1]

RECURSIVE Base64Encode(_)
Base64Encode(b) ==
    IF Len(b) = 0 THEN ""
    ELSE IF Len(b) = 1 THEN
        Base64Digit(b[1] \div 4) \o Base64Digit((b[1] % 4) * 16) \o "=="
    ELSE IF Len(b) = 2 THEN
        Base64Digit(b[1] \div 4) \o Base64Digit((b[1] % 4) * 16 + b[2] \div 16)
            \o Base64Digit((b[2] % 16) * 4) \o "="
    ELSE
        Base64Digit(b[1] \div 4) \o Base64Digit((b[1] % 4) * 16 + b[2] \div 16)
            \o Base64Digit((b[2] % 16) * 4 + b[3] \div 64) \o Base64Digit(b[3] % 64)
            \o Base64Encode(SubSeq(b, 4, Len(b)))

\* The decoder skips characters outside the alphabet and stops at the padding.
RECURSIVE Base64Digits(_)
Base64Digits(s) ==
    IF Len(s) = 0 \/ Char(s, 1) = "=" THEN <<>>
    ELSE IF Char(s, 1) \in Base64Set
         THEN <<Base64Value[Char(s, 1)]>> \o Base64Digits(SubSeq(s, 2, Len(s)))
         ELSE Base64Digits(SubSeq(s, 2, Len(s)))

RECURSIVE Base64Bytes(_)
Base64Bytes(v) ==
    IF Len(v) < 2 THEN <<>>
    ELSE IF Len(v) = 2 THEN <<v[1] * 4 + v[2] \div 16>>
    ELSE IF Len(v) = 3 THEN <<v[1] * 4 + v[2] \div 16, (v[2] % 16) * 16 + v[3] \div 4>>
    ELSE <<v[1] * 4 + v[2] \div 16, (v[2] % 16) * 16 + v[3] \div 4, (v[3] % 4) * 64 + v[4]>>
            \o Base64Bytes(SubSeq(v, 5, Len(v)))

Base64Decode(s) == Base64Bytes(Base64Digits(s))

\* String.prototype.split(sep) for a one-character separator.
RECURSIVE Split(_, _)
Split(s, sep) ==
    LET hits == {i \in 1..Len(s) : Char(s, i) = sep}
    IN  IF hits = {} THEN <<s>>
        ELSE <<SubSeq(s, 1, Min(hits) - 1)>> \o Split(SubSeq(s, Min(hits) + 1, Len(s)), sep)

\* `data:${mimeType};base64,${imageBase64}`
DataUrl(mimeType, imageBase64) == "data:" \o mimeType \o ";base64," \o imageBase64

(***************************************************************************)
(* ObjectIds.  The driver builds an id from a timestamp, a per-process     *)
(* random value and a 3-byte counter it increments on every new id; the    *)
(* first two are fixed here, the counter is oidCounter.                    *)
(***************************************************************************)
HexDigits == "0123456789abcdef"

HexSet == {Char(HexDigits, i) : i \in 1..16} \cup {"A", "B", "C", "D", "E", "F"}

RECURSIVE Hex(_, _)
Hex(n, width) ==
    IF width = 0 THEN "" ELSE Hex(n \div 16, width - 1) \o Char(HexDigits, (n % 16) + 1)

ObjectIdPrefix == "65f1c0de0a1b2c3d4e"

CounterModulus == 256 * 256 * 256

\* An id generator that does not advance: every new document gets the same id.
ObjectIdReused(counter) == ObjectIdPrefix \o Hex(1, 6)

ObjectId(counter) == ObjectIdPrefix \o Hex(counter % CounterModulus, 6)

\* The cast findById applies to its argument: a string of 24 hex digits.
IsObjectId(param) == Len(param) = 24 /\ \A i \in 1..24 : Char(param, i) \in HexSet

(***************************************************************************)
(* The upload middleware: multer({storage, limits, fileFilter}).           *)
(***************************************************************************)
FileSizeLimit == 10 * 1024 * 1024

\* A multipart form: no "image" part, or one file part.  size is the part's
\* length in bytes; it is Len(buffer) except for the oversized upload, whose
\* content multer never hands on and is left out.
NoFile == [present |-> FALSE, originalname |-> "", mimetype |-> "", buffer |-> <<>>, size |-> 0]

FilePart(name, mime, bytes, n) ==
    [present |-> TRUE, originalname |-> name, mimetype |-> mime, buffer |-> bytes, size |-> n]

Forms ==
    { NoFile,
      FilePart("leaf.png", "image/png", <<137, 80, 78, 71>>, 4),
      FilePart("scan.img", "image/x,y", <<255, 216>>, 2),
      FilePart("empty.png", "image/png", <<>>, 0),
      FilePart("notes.txt", "text/plain", <<104, 105, 33>>, 3),
      FilePart("huge.png", "image/png", <<137, 80>>, FileSizeLimit + 1) }

\* fileFilter: (req, file, cb) => ...
fileFilter(file) ==
    IF ~StartsWith(file.mimetype, "image/")
    THEN Some("Only image files are allowed")
    ELSE None

\* upload.single('image'): the error handed to next(err), if any.
upload(form) ==
    IF ~form.present THEN None
    ELSE IF IsSome(fileFilter(form)) THEN fileFilter(form)
    ELSE IF form.size > FileSizeLimit THEN Some("File too large")
    ELSE None

(***************************************************************************)
(* Responses.  One record shape for every route; unused fields are empty.  *)
(* json is FALSE for the page Express's default error handler renders.     *)
(***************************************************************************)
NoResponse ==
    [status |-> 0, json |-> FALSE, error |-> "", id |-> "", plantInfo |-> "",
     scientificName |-> "", commonName |-> "", imageUrl |-> ""]

JsonError(code, message) == [NoResponse EXCEPT !.status = code, !.json = TRUE, !.error = message]

\* An error passed to next(err) with no error-handling middleware installed:
\* Express answers with err.status, 500 when the error has none.
DefaultErrorHandler(message) == [NoResponse EXCEPT !.status = 500, !.error = message]

imageUrl(id) == "/api/images/" \o id

(***************************************************************************)
(* The Gemini call: axios.post either throws or yields response.data.      *)
(***************************************************************************)
TextPart(t) == [text |-> Some(t)]
InlinePart == [text |-> None]

Content(parts) == [parts |-> parts]
Candidate(content) == [content |-> content]
Data(candidates) == Some([candidates |-> candidates])

LabelledParts == <<TextPart("Scientific name: Ficus benjamina"), TextPart("Common name: Weeping fig")>>
UnlabelledParts == <<TextPart("A green plant."), InlinePart>>

GeminiData ==
    { None,
      Data(None),
      Data(Some(<<>>)),
      Data(Some(<<Candidate(None)>>)),
      Data(Some(<<Candidate(Some(Content(None)))>>)),
      Data(Some(<<Candidate(Some(Content(Some(LabelledParts))))>>)),
      Data(Some(<<Candidate(Some(Content(Some(UnlabelledParts))))>>)) }

\* What axios throws: error.message and, when the service answered with an
\* error status, error.response.data.error.message.
GeminiErrors ==
    { [message |-> "Network Error", upstream |-> None],
      [message |-> "Request failed with status code 429", upstream |-> Some("Resource exhausted")] }

\* The answers tried for an upload: every answer and every failure for the
\* ordinary image, the labelled answer for the others.
AnswersTried(form) ==
    IF form.originalname = "leaf.png" THEN GeminiData
    ELSE {Data(Some(<<Candidate(Some(Content(Some(LabelledParts))))>>))}

FailuresTried(form) == IF form.originalname = "leaf.png" THEN GeminiErrors ELSE {}

\* response.data && .candidates && .candidates[0] && .content && .content.parts
HasParts(data) ==
    /\ IsSome(data)
    /\ IsSome(ValueOf(data).candidates)
    /\ Len(ValueOf(ValueOf(data).candidates)) >= 1
    /\ IsSome(ValueOf(ValueOf(data).candidates)[1].content)
    /\ IsSome(ValueOf(ValueOf(ValueOf(data).candidates)[1].content).parts)

PartsOf(data) == ValueOf(ValueOf(ValueOf(ValueOf(data).candidates)[1].content).parts)

\* parts.filter(part => part.text).map(part => part.text).join('\n')
RECURSIVE JoinTexts(_)
JoinTexts(parts) ==
    IF Len(parts) = 0 THEN ""
    ELSE LET rest == JoinTexts(Tail(parts))
             keep == IsSome(parts[1].text) /\ ValueOf(parts[1].text) # ""
             more == \E i \in 2..Len(parts) : IsSome(parts[i].text) /\ ValueOf(parts[i].text) # ""
         IN  IF ~keep THEN rest
             ELSE IF more THEN ValueOf(parts[1].text) \o "\n" \o rest
             ELSE ValueOf(parts[1].text)

plantInfoOf(data) == IF HasParts(data) THEN JoinTexts(PartsOf(data)) ELSE ""

(***************************************************************************)
(* The PlantDetection collection.                                          *)
(***************************************************************************)
NoDocument ==
    [_id |-> "", originalImageName |-> "", imageData |-> "", mimeType |-> "",
     detectedAt |-> 0, plantInfo |-> "", scientificName |-> "", commonName |-> ""]

\* new PlantDetection({...}): the _id and the detectedAt default are set here.
NewPlantDetection(file, plantInfo, names, id, date) ==
    [_id               |-> id,
     originalImageName |-> file.originalname,
     imageData         |-> DataUrl(file.mimetype, Base64Encode(file.buffer)),
     mimeType          |-> file.mimetype,
     detectedAt        |-> date,
     plantInfo         |-> plantInfo,
     scientificName    |-> names.scientificName,
     commonName        |-> names.commonName]

HasId(coll, id) == \E i \in 1..Len(coll) : coll[i]._id = id

\* PlantDetection.findById(id) once the id is cast: the document, or null.
findById(coll, id) ==
    IF HasId(coll, id) THEN Some(coll[CHOOSE i \in 1..Len(coll) : coll[i]._id = id]) ELSE None

\* An insert that writes the document without its image.
InsertOnePartial(coll, doc) == Append(coll, [doc EXCEPT !.imageData = ""])

\* plantDetection.save() of a new document: an insert.
InsertOne(coll, doc) == Append(coll, doc)

\* .sort({ detectedAt: -1 }): insertion of d into a descending sequence.
RECURSIVE InsertDescending(_, _)
InsertDescending(sorted, d) ==
    IF Len(sorted) = 0 THEN <<d>>
    ELSE IF sorted[1].detectedAt >= d.detectedAt
         THEN <<sorted[1]>> \o InsertDescending(Tail(sorted), d)
         ELSE <<d>> \o sorted

\* A find() that leaves the sort out: natural order.
SortSkipped(coll) == coll

RECURSIVE SortByDetectedAtDescending(_)
SortByDetectedAtDescending(coll) ==
    IF Len(coll) = 0 THEN <<>>
    ELSE InsertDescending(SortByDetectedAtDescending(SubSeq(coll, 1, Len(coll) - 1)),
                          coll[Len(coll)])

(***************************************************************************)
(* POST /api/detect-plant, in the three steps its awaits cut it into.      *)
(***************************************************************************)
\* upstream records how the call to the service ended for the request:
\* "pending", "threw", "unstructured" (no candidates[0].content.parts) or "text".
NewRequest ==
    [pc |-> "new", form |-> NoFile, upstream |-> "pending", doc |-> NoDocument,
     resp |-> NoResponse]

Requests == 1..MaxRequests

Finish(req, response) == [req EXCEPT !.pc = "done", !.doc = NoDocument, !.resp = response]

\* The middleware and the handler up to `await axios.post(...)`.
DetectPlantStart(req, form) ==
    IF IsSome(upload(form))
    THEN Finish([req EXCEPT !.form = form], DefaultErrorHandler(ValueOf(upload(form))))
    ELSE IF ~form.present
    THEN Finish([req EXCEPT !.form = form], JsonError(400, "No image file uploaded"))
    ELSE [req EXCEPT !.pc = "awaitGemini", !.form = form]

\* A handler that runs the extraction on the first text part alone.
DetectPlantBuildFirstPart(req, data, id, date) ==
    LET plantInfo == plantInfoOf(data)
        first     == IF HasParts(data) /\ Len(PartsOf(data)) >= 1
                     THEN JoinTexts(<<PartsOf(data)[1]>>) ELSE ""
        names     == extractPlantData(first)
    IN  [req EXCEPT !.pc = "awaitSave",
                    !.upstream = IF HasParts(data) THEN "text" ELSE "unstructured",
                    !.doc = NewPlantDetection(req.form, plantInfo, names, id, date)]

\* From the service's answer to `await plantDetection.save()`.
DetectPlantBuild(req, data, id, date) ==
    LET plantInfo == plantInfoOf(data)
        names     == extractPlantData(plantInfo)
    IN  [req EXCEPT !.pc = "awaitSave",
                    !.upstream = IF HasParts(data) THEN "text" ELSE "unstructured",
                    !.doc = NewPlantDetection(req.form, plantInfo, names, id, date)]

\* res.json({ plantInfo, id, scientificName, commonName, imageUrl })
DetectPlantSuccess(doc) ==
    [NoResponse EXCEPT !.status = 200, !.json = TRUE,
                       !.plantInfo = doc.plantInfo,
                       !.id = doc._id,
                       !.scientificName = doc.scientificName,
                       !.commonName = doc.commonName,
                       !.imageUrl = imageUrl(doc._id)]

\* catch (error): error.response?.data?.error?.message || error.message || ...
DetectPlantCatch(err) ==
    JsonError(500, IF IsSome(err.upstream) THEN ValueOf(err.upstream)
                   ELSE IF err.message # "" THEN err.message
                   ELSE "Failed to detect plant")

ReceiveUpload(r, form) ==
    /\ reqs[r].pc = "new"
    /\ \A q \in 1..(r - 1) : reqs[q].pc # "new"
    /\ reqs' = [reqs EXCEPT ![r] = DetectPlantStart(reqs[r], form)]
    /\ UNCHANGED <<store, oidCounter, now, text, extracted>>

GeminiResponds(r, data, date) ==
    /\ reqs[r].pc = "awaitGemini"
    /\ data \in AnswersTried(reqs[r].form)
    /\ date >= now
    /\ now' = date
    /\ oidCounter' = oidCounter + 1
    /\ reqs' = [reqs EXCEPT ![r] = DetectPlantBuild(reqs[r], data, ObjectId(oidCounter'), date)]
    /\ UNCHANGED <<store, text, extracted>>

GeminiFails(r, err) ==
    /\ reqs[r].pc = "awaitGemini"
    /\ err \in FailuresTried(reqs[r].form)
    /\ reqs' = [reqs EXCEPT ![r] = Finish([reqs[r] EXCEPT !.upstream = "threw"], DetectPlantCatch(err))]
    /\ UNCHANGED <<store, oidCounter, now, text, extracted>>

\* save() resolves; an insert of an _id already present is refused by the
\* collection's unique index and save() rejects.
SaveDocument(r) ==
    /\ reqs[r].pc = "awaitSave"
    /\ IF HasId(store, reqs[r].doc._id)
       THEN /\ reqs' = [reqs EXCEPT ![r] = Finish(reqs[r],
                            DetectPlantCatch([message |-> "E11000 duplicate key error", upstream |-> None]))]
            /\ store' = store
       ELSE /\ store' = InsertOne(store, reqs[r].doc)
            /\ reqs' = [reqs EXCEPT ![r] = Finish(reqs[r], DetectPlantSuccess(reqs[r].doc))]
    /\ UNCHANGED <<oidCounter, now, text, extracted>>

\* save() rejects: the database is unreachable or refuses the write.
SaveFails(r) ==
    /\ reqs[r].pc = "awaitSave"
    /\ reqs' = [reqs EXCEPT ![r] = Finish(reqs[r],
                    DetectPlantCatch([message |-> "connection closed", upstream |-> None]))]
    /\ UNCHANGED <<store, oidCounter, now, text, extracted>>

(***************************************************************************)
(* The three GET routes.  The database is taken to answer reads.           *)
(***************************************************************************)
NoDetail ==
    [_id |-> "", originalImageName |-> "", mimeType |-> "", detectedAt |-> 0,
     plantInfo |-> "", scientificName |-> "", commonName |-> "", imageUrl |-> ""]

NoReply ==
    [op |-> "none", param |-> "", status |-> 0, error |-> "", contentType |-> "",
     bytes |-> <<>>, list |-> <<>>, detail |-> NoDetail]

ReplyError(op, param, code, message) ==
    [NoReply EXCEPT !.op = op, !.param = param, !.status = code, !.error = message]

\* GET /api/images/:id
ServeImage(coll, param) ==
    IF ~IsObjectId(param)
    THEN ReplyError("image", param, 500, "Failed to serve image")
    ELSE IF ~IsSome(findById(coll, param)) \/ ValueOf(findById(coll, param)).imageData = ""
    THEN ReplyError("image", param, 404, "Image not found")
    ELSE LET plantDetection == ValueOf(findById(coll, param))
             imageDataParts == Split(plantDetection.imageData, ",")
             mimeType       == IF plantDetection.mimeType # "" THEN plantDetection.mimeType
                               ELSE "image/jpeg"
             base64Data     == IF Len(imageDataParts) > 1 THEN imageDataParts[2]
                               ELSE imageDataParts[1]
         IN  [NoReply EXCEPT !.op = "image", !.param = param, !.status = 200,
                             !.contentType = mimeType, !.bytes = Base64Decode(base64Data)]

\* .select('originalImageName detectedAt scientificName commonName _id') and imageUrl
Summary(d) ==
    [_id |-> d._id, originalImageName |-> d.originalImageName, detectedAt |-> d.detectedAt,
     scientificName |-> d.scientificName, commonName |-> d.commonName,
     imageUrl |-> imageUrl(d._id)]

\* GET /api/detections
ListDetections(coll) ==
    LET detections == SortByDetectedAtDescending(coll)
    IN  [NoReply EXCEPT !.op = "list", !.status = 200,
                        !.list = [i \in 1..Len(detections) |-> Summary(detections[i])]]

\* toObject(), delete imageData, add imageUrl
Sanitized(d) ==
    [_id |-> d._id, originalImageName |-> d.originalImageName, mimeType |-> d.mimeType,
     detectedAt |-> d.detectedAt, plantInfo |-> d.plantInfo,
     scientificName |-> d.scientificName, commonName |-> d.commonName,
     imageUrl |-> imageUrl(d._id)]

\* GET /api/detections/:id
GetDetection(coll, param) ==
    IF ~IsObjectId(param)
    THEN ReplyError("detail", param, 500, "Failed to fetch plant detection")
    ELSE IF ~IsSome(findById(coll, param))
    THEN ReplyError("detail", param, 404, "Plant detection not found")
    ELSE [NoReply EXCEPT !.op = "detail", !.param = param, !.status = 200,
                         !.detail = Sanitized(ValueOf(findById(coll, param)))]

\* The ids a client asks for: every id the server can have issued, one
\* well-formed id it never issues, and a string that is no ObjectId.
IdParams == {ObjectId(n) : n \in 0..MaxRequests} \cup {"not-an-id"}

\* The GET routes answer from the collection and write nothing: the reply is
\* a function of the state, and the state is left as it was.
GetImageRoute(param) ==
    /\ ServeImage(store, param).status \in {200, 404, 500}
    /\ UNCHANGED vars

ListRoute ==
    /\ ListDetections(store).status = 200
    /\ UNCHANGED vars

GetDetectionRoute(param) ==
    /\ GetDetection(store, param).status \in {200, 404, 500}
    /\ UNCHANGED vars

(***************************************************************************)
(* The server.                                                             *)
(***************************************************************************)
NotExtracted == [done |-> FALSE, scientificName |-> "", commonName |-> ""]

Init ==
    /\ store = <<>>
    /\ oidCounter = 0
    /\ now = 0
    /\ reqs = [r \in Requests |-> NewRequest]
    /\ text = ""
    /\ extracted = NotExtracted

Next ==
    \/ \E r \in Requests, form \in Forms : ReceiveUpload(r, form)
    \/ \E r \in Requests, data \in GeminiData, date \in 0..MaxClock : GeminiResponds(r, data, date)
    \/ \E r \in Requests, err \in GeminiErrors : GeminiFails(r, err)
    \/ \E r \in Requests : SaveDocument(r)
    \/ \E r \in Requests : SaveFails(r)
    \/ \E param \in IdParams : GetImageRoute(param)
    \/ ListRoute
    \/ \E param \in IdParams : GetDetectionRoute(param)

Spec == Init /\ [][Next]_vars

(***************************************************************************)
(* extractPlantData on its own, over texts assembled from fragments of     *)
(* the kind the service writes.                                            *)
(***************************************************************************)
Fragments ==
    << "Scientific name", "scientific NAME (Latin)", "Common name", ":", " ", "\n",
       "Ficus benjamina", "ficus benjamina", "FICUS BENJAMINA", "Weeping fig",
       "Family: Moraceae" >>

RECURSIVE TextsUpTo(_)
TextsUpTo(k) ==
    IF k = 0 THEN {""}
    ELSE TextsUpTo(k - 1) \cup {p \o Fragments[i] : p \in TextsUpTo(k - 1), i \in 1..Len(Fragments)}

ExtractInit ==
    /\ store = <<>>
    /\ oidCounter = 0
    /\ now = 0
    /\ reqs = [r \in Requests |-> NewRequest]
    /\ text \in TextsUpTo(MaxTokens)
    /\ extracted = NotExtracted

Extract ==
    /\ ~extracted.done
    /\ extracted' = [done |-> TRUE,
                     scientificName |-> extractPlantData(text).scientificName,
                     commonName |-> extractPlantData(text).commonName]
    /\ UNCHANGED <<store, oidCounter, now, reqs, text>>

ExtractNext == Extract

SpecExtract == ExtractInit /\ [][ExtractNext]_vars

(***************************************************************************)
(* Properties.                                                             *)
(***************************************************************************)
Succeeded(r) == reqs[r].pc = "done" /\ reqs[r].resp.status = 200

StorageFailed(r) ==
    reqs[r].pc = "done" /\ reqs[r].resp.status = 500 /\ reqs[r].resp.error = "connection closed"

\* The record the collection holds under the id a request was answered with.
StoredFor(r) == ValueOf(findById(store, reqs[r].resp.id))

\* The document a finished request's upload and answer make, given its date.
DocumentOf(r, date) ==
    NewPlantDetection(reqs[r].form, reqs[r].resp.plantInfo,
                      [scientificName |-> reqs[r].resp.scientificName,
                       commonName |-> reqs[r].resp.commonName],
                      reqs[r].resp.id, date)

\* identify's preconditions: a file, non-empty bytes, an image/ mime type,
\* a size within the cap.
PreconditionViolated(form) ==
    \/ ~form.present
    \/ form.size = 0
    \/ ~StartsWith(form.mimetype, "image/")
    \/ form.size > FileSizeLimit

\* C1: every identify request that violates a precondition (no file, empty
\* bytes, a mime type not starting with "image/", a size above the cap) is
\* answered with status 400 and a JSON error message, without the service
\* having been called and without a record.
C1_ViolationIsValidationError ==
    \A r \in Requests :
        reqs[r].pc # "new" /\ PreconditionViolated(reqs[r].form)
            => /\ reqs[r].pc = "done"
               /\ reqs[r].upstream = "pending"
               /\ reqs[r].resp.status = 400
               /\ reqs[r].resp.json
               /\ reqs[r].resp.error # ""
               /\ reqs[r].resp.id = ""

\* C2: a finished identify whose service call threw, or whose answer lacked
\* candidates[0].content.parts, was answered with status 500, and no record
\* was created for it.
C2_UpstreamFailureIsUpstreamError ==
    \A r \in Requests :
        reqs[r].pc = "done" /\ reqs[r].upstream \in {"threw", "unstructured"}
            => /\ reqs[r].resp.status = 500
               /\ reqs[r].resp.id = ""
               /\ \A i \in 1..Len(store) : store[i]._id # reqs[r].resp.id

\* C3: for every id that names no stored record, whatever its form, both
\* GET /api/detections/:id and GET /api/images/:id answer 404.
C3_UnknownIdIsNotFound ==
    \A param \in IdParams :
        ~HasId(store, param)
            => /\ GetDetection(store, param).status = 404
               /\ ServeImage(store, param).status = 404

FullyPopulated(d) ==
    /\ IsObjectId(d._id)
    /\ StartsWith(d.imageData, "data:" \o d.mimeType \o ";base64,")
    /\ StartsWith(d.mimeType, "image/")
    /\ d.detectedAt \in 0..MaxClock
    /\ d.scientificName = extractPlantData(d.plantInfo).scientificName
    /\ d.commonName = extractPlantData(d.plantInfo).commonName

C5_NoPartialRecord == \A i \in 1..Len(store) : FullyPopulated(store[i])

C5_Step ==
    /\ store' # store
        => \E r \in Requests :
              /\ reqs[r].pc = "awaitSave"
              /\ reqs'[r].pc = "done"
              /\ reqs'[r].resp.status = 200
              /\ Len(store') = Len(store) + 1
              /\ SubSeq(store', 1, Len(store)) = store
              /\ store'[Len(store')] = reqs[r].doc
              /\ FullyPopulated(store'[Len(store')])
              /\ \A q \in Requests \ {r} : reqs'[q] = reqs[q]
    /\ \A r \in Requests :
          reqs[r].pc # "done" /\ reqs'[r].pc = "done"
            => IF reqs'[r].resp.status = 200
               THEN Len(store') = Len(store) + 1
               ELSE store' = store

\* C5: the collection changes only when an identify request is answered 200,
\* and then by exactly one appended, fully populated record; every step that
\* ends an identify in failure, and every other step, leaves every record as
\* it was; no stored record is ever partial.
C5_StoreChangesOnlyBySuccess == []C5_NoPartialRecord /\ [][C5_Step]_vars

\* One identify failed at the save and another succeeded: one record.
C5_Witness ==
    /\ Len(store) = 1
    /\ \E r1, r2 \in Requests : StorageFailed(r1) /\ Succeeded(r2)

\* C6: whatever the insertion order, GET /api/detections returns one summary
\* per stored record, each summary's detectedAt at least that of the next.
C6_ListIsDescending ==
    LET summaries == ListDetections(store).list
    IN  /\ ListDetections(store).status = 200
        /\ Len(summaries) = Len(store)
        /\ \A i \in 1..Len(store) : \E k \in 1..Len(summaries) : summaries[k] = Summary(store[i])
        /\ \A k \in 1..(Len(summaries) - 1) : summaries[k].detectedAt >= summaries[k + 1].detectedAt

\* Two records whose insertion order is ascending by date, listed newest first.
C6_Witness ==
    /\ Len(store) >= 2
    /\ store[1].detectedAt < store[2].detectedAt
    /\ ListDetections(store).list[1]._id = store[2]._id

\* C7: for every answered identify, GET /api/images/:id of its id yields
\* exactly the uploaded bytes and the uploaded mime type.
C7_ImageRoundTrip ==
    \A r \in Requests :
        Succeeded(r)
            => /\ ServeImage(store, reqs[r].resp.id).status = 200
               /\ ServeImage(store, reqs[r].resp.id).bytes = reqs[r].form.buffer
               /\ ServeImage(store, reqs[r].resp.id).contentType = reqs[r].form.mimetype

HasNoLabel(s) == Occurrences(s, ScientificLabel) = {} /\ Occurrences(s, CommonLabel) = {}

\* C8: an identify whose upload was accepted and whose service call returned
\* text fails only if the save fails; when it is answered, the names in the
\* response and in the record are extractPlantData of the record's plantInfo,
\* which is the plantInfo of the response, and both names are empty when the
\* text holds neither label.
C8_NamesAreExtraction ==
    \A r \in Requests :
        /\ reqs[r].pc = "done" /\ reqs[r].upstream = "text"
            => Succeeded(r) \/ StorageFailed(r)
        /\ Succeeded(r)
            => /\ IsSome(findById(store, reqs[r].resp.id))
               /\ StoredFor(r).plantInfo = reqs[r].resp.plantInfo
               /\ StoredFor(r).scientificName = extractPlantData(StoredFor(r).plantInfo).scientificName
               /\ StoredFor(r).commonName = extractPlantData(StoredFor(r).plantInfo).commonName
               /\ reqs[r].resp.scientificName = StoredFor(r).scientificName
               /\ reqs[r].resp.commonName = StoredFor(r).commonName
               /\ HasNoLabel(StoredFor(r).plantInfo)
                    => reqs[r].resp.scientificName = "" /\ reqs[r].resp.commonName = ""

\* One answer with both labels and one with neither, both stored.
C8_Witness ==
    \E r1, r2 \in Requests :
        /\ Succeeded(r1)
        /\ reqs[r1].resp.scientificName = "Ficus benjamina"
        /\ reqs[r1].resp.commonName = "Weeping fig"
        /\ Succeeded(r2)
        /\ reqs[r2].resp.plantInfo = "A green plant."
        /\ HasNoLabel(StoredFor(r2).plantInfo)
        /\ StoredFor(r2).scientificName = ""

\* One uppercase letter, lowercase letters, one space, lowercase letters.
IsBinomial(s) ==
    \E m \in 2..(Len(s) - 2) :
        /\ Char(s, 1) \in UpperSet
        /\ \A k \in 2..m : Char(s, k) \in LowerSet
        /\ Char(s, m + 1) = " "
        /\ \A k \in (m + 2)..Len(s) : Char(s, k) \in LowerSet

\* C9: the scientificName extractPlantData returns is the empty string or
\* has the binomial shape: a capitalized word, a space, a lowercase word.
C9_ScientificNameIsBinomial ==
    extracted.done => extracted.scientificName = "" \/ IsBinomial(extracted.scientificName)

\* The first "Common name" with a colon after it on its line, the colon, and
\* the text from there to the end of that line, trimmed.
CommonNameOnLabelLine(s) ==
    LET labels == {i \in Occurrences(s, CommonLabel) :
                      \E j \in (i + Len(CommonLabel))..DotRunEnd(s, i + Len(CommonLabel)) :
                          Char(s, j) = ":"}
    IN  IF labels = {} THEN ""
        ELSE LET i == Min(labels)
                 j == Min({k \in (i + Len(CommonLabel))..DotRunEnd(s, i + Len(CommonLabel)) :
                              Char(s, k) = ":"})
             IN  Trim(SubSeq(s, j + 1, NotNewlineRunEnd(s, j + 1)))

\* C10: the commonName extractPlantData returns is the text after the colon
\* of the first "Common name" label up to the next newline, trimmed: never
\* text of a later line, and empty when there is no such label.
C10_CommonNameStaysOnLine ==
    extracted.done => extracted.commonName = CommonNameOnLabelLine(text)
====
